---- MODULE Spec2Model ----
(***************************************************************************)
(* A model of the vex-sdk-desktop display emulation: the Canvas            *)
(* rasterization core (src/src/canvas.rs), the display compositor and the  *)
(* frame synchronizer (src/src/display.rs), and the SDK entry points that  *)
(* drive them (src/src/sdk/display.rs).                                    *)
(*                                                                         *)
(* The surface is scaled down from 480 x 272 to WIDTH x HEIGHT pixels; all *)
(* arithmetic on coordinates and indices is the arithmetic of the source.  *)
(***************************************************************************)
EXTENDS Integers, Sequences, FiniteSets, TLC

----------------------------------------------------------------------------
(* Bounds of the model *)

\* canvas.rs:26-28, scaled down
WIDTH == 3
HEIGHT == 3
HEADER_HEIGHT == 1

\* how far outside the surface the enumerated input coordinates reach
Margin == 1
\* largest circle radius enumerated
MaxRadius == 2
\* number of canvas calls the robot program makes in SpecCanvas
MaxOps == 2
\* number of SDK calls the robot program makes in SpecSync
MaxCalls == 3
\* number of canvas calls the robot program makes in SpecState
MaxStateOps == 6
\* the ends of the ranges clamp_range is applied to: -RangeReach..MaxRangeEnd
RangeReach == 3
MaxRangeEnd == 10
\* characters are the scalar values 0..MaxChar
MaxChar == 400

BUFSZ == WIDTH * HEIGHT

----------------------------------------------------------------------------
(* Program constants *)

DEFAULT_BG_COLOR == 0
DEFAULT_FG_COLOR == 16777215
HEADER_COLOR == 39372
\* b'.', the replacement character of glyph_for_char
REPLACEMENT_CHAR == 46
\* number of values of a u8 (character as u8)
U8_VALUES == 256

----------------------------------------------------------------------------
(* Geometry: Point, Rect (canvas.rs:331-385) *)

Pt(x, y) == [x |-> x, y |-> y]

\* The tuple struct Rect(pub Point, pub Point): min is .0, max is .1
Rc(p0, p1) == [min |-> p0, max |-> p1]

\* Rect::new: swaps the coordinates pairwise so that min <= max
RectNew(x0, y0, x1, y1) ==
    LET ax == IF x0 > x1 THEN x1 ELSE x0
        bx == IF x0 > x1 THEN x0 ELSE x1
        ay == IF y0 > y1 THEN y1 ELSE y0
        by == IF y0 > y1 THEN y0 ELSE y1
    IN  Rc(Pt(ax, ay), Pt(bx, by))

FULL_CLIP == RectNew(0, 0, WIDTH, HEIGHT)
USER_CLIP == RectNew(0, HEADER_HEIGHT, WIDTH, HEIGHT)
HEADER_CLIP == RectNew(0, 0, WIDTH, HEADER_HEIGHT)

\* Rect::from_sdk: header offset on y, then the max corner made exclusive
from_sdk(x0, y0, x1, y1) ==
    LET r == RectNew(x0, y0 + HEADER_HEIGHT, x1, y1 + HEADER_HEIGHT)
    IN  Rc(r.min, Pt(r.max.x + 1, r.max.y + 1))

\* Ord::clamp(self, min, max): asserts min <= max, then clamps
ClampPanics(lo, hi) == lo > hi
Clamp(v, lo, hi) == IF v < lo THEN lo ELSE IF v > hi THEN hi ELSE v

\* Point::clamp_to: each coordinate clamped into [region.0, region.1 - 1]
clamp_to(p, region) ==
    IF \/ ClampPanics(region.min.x, region.max.x - 1)
       \/ ClampPanics(region.min.y, region.max.y - 1)
    THEN [panicked |-> TRUE, point |-> p]
    ELSE [panicked |-> FALSE,
          point |-> Pt(Clamp(p.x, region.min.x, region.max.x - 1),
                       Clamp(p.y, region.min.y, region.max.y - 1))]

\* is_inside with the max edge taken as inclusive (off by one)
is_inside_closed(p, region) ==
    /\ region.min.x <= p.x /\ p.x <= region.max.x
    /\ region.min.y <= p.y /\ p.y <= region.max.y

\* Point::is_inside: half-open containment on both axes
is_inside(p, region) ==
    /\ region.min.x <= p.x /\ p.x < region.max.x
    /\ region.min.y <= p.y /\ p.y < region.max.y

\* Rect::clip_to: both corners clamped into the region
clip_to(r, region) ==
    LET a == clamp_to(r.min, region)
        b == clamp_to(r.max, region)
    IN  IF a.panicked \/ b.panicked
        THEN [panicked |-> TRUE, rect |-> r]
        ELSE [panicked |-> FALSE, rect |-> Rc(a.point, b.point)]

\* Rect::pixels: columns outermost, rows innermost
pixels(r) ==
    LET w == r.max.x - r.min.x
        h == r.max.y - r.min.y
    IN  IF w <= 0 \/ h <= 0 THEN << >>
        ELSE [k \in 1..(w * h) |->
                Pt(r.min.x + ((k - 1) \div h), r.min.y + ((k - 1) % h))]

\* clamp_range that moves the end of source only
clamp_range_end_only(source, region) ==
    IF source[1] > source[2] \/ region[1] > region[2]
    THEN [panicked |-> TRUE, some |-> FALSE, range |-> source]
    ELSE IF source[1] > region[2] \/ source[2] < region[1]
    THEN [panicked |-> FALSE, some |-> FALSE, range |-> source]
    ELSE [panicked |-> FALSE, some |-> TRUE,
          range |-> << source[1],
                       IF source[2] > region[2] THEN region[2] ELSE source[2] >>]

\* clamp_range on two inclusive ranges <<start, end>>:
\* asserts both are ordered, then intersects; none when they are disjoint
clamp_range(source, region) ==
    IF source[1] > source[2] \/ region[1] > region[2]
    THEN [panicked |-> TRUE, some |-> FALSE, range |-> source]
    ELSE IF source[1] > region[2] \/ source[2] < region[1]
    THEN [panicked |-> FALSE, some |-> FALSE, range |-> source]
    ELSE [panicked |-> FALSE, some |-> TRUE,
          range |-> << IF source[1] < region[1] THEN region[1] ELSE source[1],
                       IF source[2] > region[2] THEN region[2] ELSE source[2] >>]

----------------------------------------------------------------------------
(* Line and circle iterators of the line_drawing crate, as canvas.rs uses them *)

Octant(start, end) ==
    LET dx0 == end.x - start.x
        dy0 == end.y - start.y
        v4  == IF dy0 < 0 THEN 4 ELSE 0
        dx1 == IF dy0 < 0 THEN -dx0 ELSE dx0
        dy1 == IF dy0 < 0 THEN -dy0 ELSE dy0
        v2  == IF dx1 < 0 THEN 2 ELSE 0
        dx2 == IF dx1 < 0 THEN dy1 ELSE dx1
        dy2 == IF dx1 < 0 THEN -dx1 ELSE dy1
        v1  == IF dx2 < dy2 THEN 1 ELSE 0
    IN  v4 + v2 + v1

OctantTo(o, p) ==
    CASE o = 0 -> Pt(p.x, p.y)
      [] o = 1 -> Pt(p.y, p.x)
      [] o = 2 -> Pt(p.y, -p.x)
      [] o = 3 -> Pt(-p.x, p.y)
      [] o = 4 -> Pt(-p.x, -p.y)
      [] o = 5 -> Pt(-p.y, -p.x)
      [] o = 6 -> Pt(-p.y, p.x)
      [] o = 7 -> Pt(p.x, -p.y)

OctantFrom(o, p) ==
    CASE o = 0 -> Pt(p.x, p.y)
      [] o = 1 -> Pt(p.y, p.x)
      [] o = 2 -> Pt(-p.y, p.x)
      [] o = 3 -> Pt(-p.x, p.y)
      [] o = 4 -> Pt(-p.x, -p.y)
      [] o = 5 -> Pt(-p.y, -p.x)
      [] o = 6 -> Pt(p.y, -p.x)
      [] o = 7 -> Pt(p.x, -p.y)

RECURSIVE BresenhamIter(_, _, _, _, _, _, _)
BresenhamIter(o, px, py, end_x, dx, dy, err) ==
    IF px > end_x THEN << >>
    ELSE LET step == err >= 0
             py1  == IF step THEN py + 1 ELSE py
             err1 == IF step THEN err - dx ELSE err
         IN  << OctantFrom(o, Pt(px, py)) >>
                 \o BresenhamIter(o, px + 1, py1, end_x, dx, dy, err1 + dy)

\* Bresenham::new(start, end): every point of the segment, end included
Bresenham(start, end) ==
    LET o  == Octant(start, end)
        s  == OctantTo(o, start)
        e  == OctantTo(o, end)
        dx == e.x - s.x
        dy == e.y - s.y
    IN  BresenhamIter(o, s.x, s.y, e.x, dx, dy, dy - dx)

RECURSIVE CircleIter(_, _, _, _, _, _)
CircleIter(cx, cy, x, y, err, q) ==
    IF x >= 0 THEN << >>
    ELSE LET point == CASE q = 1 -> Pt(cx - x, cy + y)
                        [] q = 2 -> Pt(cx - y, cy - x)
                        [] q = 3 -> Pt(cx + x, cy - y)
                        [] q = 4 -> Pt(cx + y, cy + x)
         IN  IF q < 4
             THEN << point >> \o CircleIter(cx, cy, x, y, err, q + 1)
             ELSE LET rad  == err
                      incy == rad <= y
                      y1   == IF incy THEN y + 1 ELSE y
                      e1   == IF incy THEN err + y1 * 2 + 1 ELSE err
                      incx == rad > x \/ e1 > y1
                      x1   == IF incx THEN x + 1 ELSE x
                      e2   == IF incx THEN e1 + x1 * 2 + 1 ELSE e1
                  IN  << point >> \o CircleIter(cx, cy, x1, y1, e2, 1)

\* BresenhamCircle::new(center_x, center_y, radius): the boundary points
BresenhamCircle(cx, cy, radius) ==
    CircleIter(cx, cy, -radius, 0, 2 - 2 * radius, 1)

----------------------------------------------------------------------------
(* Canvas primitives (canvas.rs:107-263).  An operation takes the pixel    *)
(* buffer and the drawing state and gives the buffer it leaves, and        *)
(* whether it panicked on the way (pixels written before a panic stay).    *)

Done(buf) == [buffer |-> buf, panicked |-> FALSE]
Panic(buf) == [buffer |-> buf, panicked |-> TRUE]

\* Canvas::write_pixel: buffer[(y * WIDTH + x) as usize] = color; the index
\* operation panics outside 0..BUFSZ-1
write_pixel(buf, point, color) ==
    LET idx == point.y * WIDTH + point.x
    IN  IF idx >= 0 /\ idx < BUFSZ
        THEN Done([buf EXCEPT ![idx] = color])
        ELSE Panic(buf)

RECURSIVE write_pixels(_, _, _, _)
write_pixels(buf, pts, k, color) ==
    IF k > Len(pts) THEN Done(buf)
    ELSE LET r == write_pixel(buf, pts[k], color)
         IN  IF r.panicked THEN r ELSE write_pixels(r.buffer, pts, k + 1, color)

\* Canvas::set_pixel
set_pixel(buf, st, point) ==
    IF ~is_inside(point, st.clip_region)
    THEN Done(buf)
    ELSE write_pixel(buf, point, st.fg_color)

\* draw_horizontal_line with the clip's exclusive max taken as the last column
draw_horizontal_line_wide(buf, st, x_range, y) ==
    LET clip == st.clip_region
    IN  IF ~(clip.min.y <= y /\ y < clip.max.y) THEN Done(buf)
        ELSE LET c == clamp_range(x_range, << clip.min.x, clip.max.x >>)
             IN  IF c.panicked THEN Panic(buf)
                 ELSE IF ~c.some THEN Done(buf)
                 ELSE write_pixels(buf,
                        [k \in 1..(c.range[2] - c.range[1] + 1) |->
                            Pt(c.range[1] + k - 1, y)], 1, st.fg_color)

\* Canvas::draw_horizontal_line
draw_horizontal_line(buf, st, x_range, y) ==
    LET clip == st.clip_region
    IN  IF ~(clip.min.y <= y /\ y < clip.max.y) THEN Done(buf)
        ELSE LET c == clamp_range(x_range, << clip.min.x, clip.max.x - 1 >>)
             IN  IF c.panicked THEN Panic(buf)
                 ELSE IF ~c.some THEN Done(buf)
                 ELSE write_pixels(buf,
                        [k \in 1..(c.range[2] - c.range[1] + 1) |->
                            Pt(c.range[1] + k - 1, y)], 1, st.fg_color)

\* Canvas::draw_vertical_line
draw_vertical_line(buf, st, x, y_range) ==
    LET clip == st.clip_region
    IN  IF ~(clip.min.x <= x /\ x < clip.max.x) THEN Done(buf)
        ELSE LET c == clamp_range(y_range, << clip.min.y, clip.max.y - 1 >>)
             IN  IF c.panicked THEN Panic(buf)
                 ELSE IF ~c.some THEN Done(buf)
                 ELSE write_pixels(buf,
                        [k \in 1..(c.range[2] - c.range[1] + 1) |->
                            Pt(x, c.range[1] + k - 1)], 1, st.fg_color)

RECURSIVE set_pixels(_, _, _, _)
set_pixels(buf, st, pts, k) ==
    IF k > Len(pts) THEN Done(buf)
    ELSE LET r == set_pixel(buf, st, pts[k])
         IN  IF r.panicked THEN r ELSE set_pixels(r.buffer, st, pts, k + 1)

\* Canvas::draw_line
draw_line(buf, st, start, end) == set_pixels(buf, st, Bresenham(start, end), 1)

\* Canvas::fill_rect
fill_rect(buf, st, bounds) ==
    LET c == clip_to(bounds, st.clip_region)
    IN  IF c.panicked THEN Panic(buf)
        ELSE write_pixels(buf, pixels(c.rect), 1, st.fg_color)

\* Canvas::trace_rect: two horizontal edges, then two vertical edges
trace_rect(buf, st, bounds) ==
    LET xs == << bounds.min.x, bounds.max.x - 1 >>
        ys == << bounds.min.y, bounds.max.y - 1 >>
        h1 == draw_horizontal_line(buf, st, xs, bounds.min.y)
        h2 == draw_horizontal_line(h1.buffer, st, xs, bounds.max.y - 1)
        v1 == draw_vertical_line(h2.buffer, st, bounds.min.x, ys)
        v2 == draw_vertical_line(v1.buffer, st, bounds.max.x - 1, ys)
    IN  IF h1.panicked THEN h1
        ELSE IF h2.panicked THEN h2
        ELSE IF v1.panicked THEN v1
        ELSE v2

\* the extents loop of fill_circle: lines[i] = (leftmost, rightmost) x of row i
RECURSIVE circle_extents(_, _, _, _)
circle_extents(lines, pts, k, cx) ==
    IF k > Len(pts) THEN lines
    ELSE LET dx == pts[k].x
             i  == pts[k].y
             x  == cx + dx
             l  == lines[i]
             n  == IF dx < 0
                   THEN (IF x < l[1] THEN << x, l[2] >> ELSE l)
                   ELSE (IF x > l[2] THEN << l[1], x >> ELSE l)
         IN  circle_extents([lines EXCEPT ![i] = n], pts, k + 1, cx)

RECURSIVE draw_spans(_, _, _, _, _, _)
draw_spans(buf, st, lines, line, center, radius) ==
    IF line > 2 * radius THEN Done(buf)
    ELSE LET r == draw_horizontal_line(buf, st, lines[line],
                                       center.y - radius + line)
         IN  IF r.panicked THEN r
             ELSE draw_spans(r.buffer, st, lines, line + 1, center, radius)

\* Canvas::fill_circle
fill_circle(buf, st, center, radius) ==
    LET first == IF radius = 0 THEN set_pixel(buf, st, center) ELSE Done(buf)
        init  == [i \in 0..(2 * radius) |-> << center.x, center.x >>]
        lines == circle_extents(init, BresenhamCircle(0, radius, radius), 1,
                                center.x)
    IN  IF first.panicked THEN first
        ELSE draw_spans(first.buffer, st, lines, 0, center, radius)

RECURSIVE trace_points(_, _, _, _)
trace_points(buf, st, pts, k) ==
    IF k > Len(pts) THEN Done(buf)
    ELSE LET r == IF is_inside(pts[k], st.clip_region)
                  THEN write_pixel(buf, pts[k], st.fg_color)
                  ELSE Done(buf)
         IN  IF r.panicked THEN r ELSE trace_points(r.buffer, st, pts, k + 1)

\* Canvas::trace_circle
trace_circle(buf, st, center, radius) ==
    LET first == IF radius = 0 THEN set_pixel(buf, st, center) ELSE Done(buf)
    IN  IF first.panicked THEN first
        ELSE trace_points(first.buffer, st,
                          BresenhamCircle(center.x, center.y, radius), 1)

\* the reads and writes of copy_rect, in order: rows outermost
copy_cells(r) ==
    LET w == r.max.x - r.min.x
        h == r.max.y - r.min.y
    IN  IF w <= 0 \/ h <= 0 THEN << >>
        ELSE [k \in 1..(w * h) |->
                [row_idx |-> (k - 1) \div w, col_idx |-> (k - 1) % w,
                 row |-> r.min.y + ((k - 1) \div w),
                 col |-> r.min.x + ((k - 1) % w)]]

RECURSIVE copy_pixels(_, _, _, _, _)
copy_pixels(buf, cells, k, source, stride) ==
    IF k > Len(cells) THEN Done(buf)
    ELSE LET dest_idx   == cells[k].row * WIDTH + cells[k].col
             source_idx == cells[k].row_idx * stride + cells[k].col_idx
         IN  IF dest_idx >= 0 /\ dest_idx < BUFSZ
             THEN copy_pixels([buf EXCEPT ![dest_idx] = source[source_idx]],
                              cells, k + 1, source, stride)
             ELSE Panic(buf)

\* Canvas::copy_rect
copy_rect(buf, st, bounds, source, stride) ==
    LET c == clip_to(bounds, st.clip_region)
    IN  IF c.panicked THEN Panic(buf)
        ELSE copy_pixels(buf, copy_cells(c.rect), 1, source, stride)

\* set_clip_region that stores the region as given
set_clip_region_unclipped(st, region) ==
    [st EXCEPT !.clip_region = region]

\* CanvasState::set_clip_region
set_clip_region(st, region) ==
    LET c == clip_to(region, FULL_CLIP)
    IN  [st EXCEPT !.clip_region = c.rect]

----------------------------------------------------------------------------
(* State *)

VARIABLES
    buffer,        \* Canvas::buffer of CANVAS, indexed 0..BUFSZ-1
    state,         \* Canvas::state
    saved_state,   \* Canvas::saved_state
    rpc,           \* where each robot-program thread is
    last_op,       \* the Canvas or SDK call made last
    last_empty,    \* whether that call's range or bounds missed the clip region
    nops,          \* number of calls made so far
    budget,        \* number of calls the robot program makes in this run
    save_hist,     \* state at the latest Canvas::save, number of saves, calls since
    arg,           \* input of the pure function under study
    res,           \* its result
    sim_app,       \* SIM_APP has been set
    window_open,   \* Simulator::sim_display is Some
    has_scheduled_frame,   \* SimDisplayWindow::has_scheduled_frame
    header_buffer, \* buffer of SimDisplayWindow::header_canvas
    display,       \* DISPLAY: the SimDisplay (the visible buffer and its flags)
    display_lock,  \* who holds the DISPLAY mutex
    wpc,           \* where the windowing thread is
    is_scheduled,  \* redraw's local is_scheduled
    framebuffer,   \* the surface buffer redraw scales into
    screen,        \* the frame presented last
    ack,           \* per waiting render: what redraw has done since its composite
    pace,          \* scheduled frames that woke a render, and renders returned
    canvas_lock    \* who holds the CANVAS mutex, where the locks are taken one by one

canvasVars == << buffer, state, saved_state >>
callVars == << rpc, last_op, last_empty, nops, budget, save_hist >>
fnVars == << arg, res >>
syncVars == << sim_app, window_open, has_scheduled_frame, header_buffer, display,
              display_lock, wpc, is_scheduled, framebuffer, screen, ack, pace,
              canvas_lock >>
vars == << canvasVars, callVars, fnVars, syncVars >>

\* robot-program threads: the thread run_simulator spawns for the entry point
MainRobot == 1
Robots == {MainRobot}

\* enumerated inputs
XCoord == (0 - Margin)..(WIDTH + Margin - 1)
YCoord == (0 - Margin)..(HEIGHT + Margin - 1)
Points == {Pt(x, y) : x \in XCoord, y \in YCoord}
Rects == {RectNew(x0, y0, x1, y1) : x0 \in XCoord, x1 \in XCoord,
                                    y0 \in YCoord, y1 \in YCoord}
XRanges == XCoord \X XCoord
YRanges == YCoord \X YCoord
Radii == 0..MaxRadius
Strides == {0, 1, WIDTH}
InputColors == {DEFAULT_BG_COLOR, DEFAULT_FG_COLOR, HEADER_COLOR}

\* the caller's image handed to copy_rect: every pixel tagged by its index,
\* long enough for every read copy_rect makes with these strides
SourceImage == [i \in 0..((HEIGHT + Margin) * (WIDTH + Margin)) |-> 1 + i]

\* Canvas::new
InitialState ==
    [fg_color |-> DEFAULT_FG_COLOR,
     bg_color |-> DEFAULT_BG_COLOR,
     clip_region |-> FULL_CLIP,
     pen_size |-> 1,
     font_name |-> "monospace",
     font_scale |-> << 1, 3 >>]

BlankBuffer == [i \in 0..(BUFSZ - 1) |-> 0]

InitCanvas ==
    /\ buffer = BlankBuffer
    /\ state = InitialState
    /\ saved_state = InitialState

\* Canvas::new leaves saved_state equal to state
NoSave == [at |-> InitialState, saves |-> 0, since |-> 0]

InitCalls ==
    /\ rpc = [t \in Robots |-> "idle"]
    /\ last_op = "none"
    /\ last_empty = FALSE
    /\ nops = 0
    /\ budget = MaxOps
    /\ save_hist = NoSave

NoArg == [fn |-> "none"]
NoRes == [done |-> FALSE]

\* SimDisplay::new
SimDisplayNew ==
    [buffer |-> BlankBuffer, fullscreen |-> FALSE, autorender |-> TRUE]

NoAck ==
    [waits |-> FALSE, redraw |-> FALSE, notified |-> FALSE, presented |-> FALSE]

\* before run_simulator: the statics are constructed, no window exists
\* nothing is counted unless a run asks for it
NoPace == [counting |-> FALSE, frames |-> 0, returns |-> 0]

\* DISPLAY, FRAME_NOTIFY and the windowing thread before run_simulator
InitDisplay ==
    /\ sim_app = FALSE
    /\ window_open = FALSE
    /\ has_scheduled_frame = FALSE
    /\ header_buffer = BlankBuffer
    /\ display = SimDisplayNew
    /\ display_lock = "free"
    /\ wpc = "idle"
    /\ is_scheduled = FALSE
    /\ framebuffer = BlankBuffer
    /\ screen = BlankBuffer
    /\ ack = [t \in Robots |-> NoAck]
    /\ canvas_lock = "free"

InitSync == InitDisplay /\ pace = NoPace

----------------------------------------------------------------------------
(* Canvas calls made by a robot-program thread.  A call runs under the     *)
(* CANVAS lock for its whole duration, so it is one step; a panic ends the *)
(* calling thread.                                                         *)

\* the inclusive range <<a, b>> meets the columns (rows) lo..hi-1 nowhere
EmptyIn(range, lo, hi) ==
    (IF range[1] > lo THEN range[1] ELSE lo)
        > (IF range[2] < hi - 1 THEN range[2] ELSE hi - 1)

\* the half-open rectangles r and c have no pixel in common
EmptyIntersection(r, c) ==
    \/ (IF r.min.x > c.min.x THEN r.min.x ELSE c.min.x)
          >= (IF r.max.x < c.max.x THEN r.max.x ELSE c.max.x)
    \/ (IF r.min.y > c.min.y THEN r.min.y ELSE c.min.y)
          >= (IF r.max.y < c.max.y THEN r.max.y ELSE c.max.y)

Draws(t, name, r, empty) ==
    /\ rpc[t] = "idle"
    /\ nops < budget
    /\ buffer' = r.buffer
    /\ rpc' = IF r.panicked THEN [rpc EXCEPT ![t] = "panicked"] ELSE rpc
    /\ last_op' = name
    /\ last_empty' = empty
    /\ nops' = nops + 1
    /\ save_hist' = [save_hist EXCEPT !.since = @ + 1]
    /\ UNCHANGED << state, saved_state, budget, fnVars, syncVars >>

SetsState(t, name, st, saved) ==
    /\ rpc[t] = "idle"
    /\ nops < budget
    /\ state' = st
    /\ saved_state' = saved
    /\ last_op' = name
    /\ last_empty' = FALSE
    /\ nops' = nops + 1
    /\ save_hist' = IF name = "save"
                    THEN [at |-> state, saves |-> save_hist.saves + 1, since |-> 0]
                    ELSE [save_hist EXCEPT !.since = @ + 1]
    /\ UNCHANGED << buffer, rpc, budget, fnVars, syncVars >>

SetPixelAt(t, p) == Draws(t, "set_pixel", set_pixel(buffer, state, p), FALSE)

SetPixel(t) == \E p \in Points : SetPixelAt(t, p)

DrawHorizontalLineAt(t, xr, y) ==
    Draws(t, "draw_horizontal_line", draw_horizontal_line(buffer, state, xr, y),
          EmptyIn(xr, state.clip_region.min.x, state.clip_region.max.x))

DrawHorizontalLine(t) ==
    \E xr \in XRanges, y \in YCoord : DrawHorizontalLineAt(t, xr, y)

DrawVerticalLineAt(t, x, yr) ==
    Draws(t, "draw_vertical_line", draw_vertical_line(buffer, state, x, yr),
          EmptyIn(yr, state.clip_region.min.y, state.clip_region.max.y))

DrawVerticalLine(t) ==
    \E x \in XCoord, yr \in YRanges : DrawVerticalLineAt(t, x, yr)

DrawLine(t) ==
    \E a \in Points, b \in Points :
        Draws(t, "draw_line", draw_line(buffer, state, a, b), FALSE)

FillRectAt(t, r) ==
    Draws(t, "fill_rect", fill_rect(buffer, state, r),
          EmptyIntersection(r, state.clip_region))

FillRect(t) == \E r \in Rects : FillRectAt(t, r)

TraceRect(t) ==
    \E r \in Rects : Draws(t, "trace_rect", trace_rect(buffer, state, r), FALSE)

FillCircle(t) ==
    \E c \in Points, radius \in Radii :
        Draws(t, "fill_circle", fill_circle(buffer, state, c, radius), FALSE)

TraceCircle(t) ==
    \E c \in Points, radius \in Radii :
        Draws(t, "trace_circle", trace_circle(buffer, state, c, radius), FALSE)

CopyRectAt(t, r, stride) ==
    Draws(t, "copy_rect", copy_rect(buffer, state, r, SourceImage, stride),
          EmptyIntersection(r, state.clip_region))

CopyRect(t) == \E r \in Rects, stride \in Strides : CopyRectAt(t, r, stride)

SetClipRegion(t) ==
    \E r \in Rects :
        SetsState(t, "set_clip_region", set_clip_region(state, r), saved_state)

\* save that fills the slot the first time only
Save_first_only(t) ==
    SetsState(t, "save", state,
              IF save_hist.saves = 0 THEN state ELSE saved_state)

\* Canvas::save
Save(t) == SetsState(t, "save", state, state)

\* Canvas::restore
Restore(t) == SetsState(t, "restore", saved_state, saved_state)

\* vexDisplayForegroundColor
SetForegroundColor(t) ==
    \E c \in InputColors :
        SetsState(t, "set_fg_color", [state EXCEPT !.fg_color = c], saved_state)

NextCanvas ==
    \/ SetPixel(MainRobot)
    \/ DrawHorizontalLine(MainRobot)
    \/ DrawVerticalLine(MainRobot)
    \/ DrawLine(MainRobot)
    \/ FillRect(MainRobot)
    \/ TraceRect(MainRobot)
    \/ FillCircle(MainRobot)
    \/ TraceCircle(MainRobot)
    \/ CopyRect(MainRobot)
    \/ SetClipRegion(MainRobot)
    \/ Save(MainRobot)
    \/ Restore(MainRobot)
    \/ SetForegroundColor(MainRobot)

InitCanvasSpec ==
    InitCanvas /\ InitCalls /\ InitSync /\ arg = NoArg /\ res = NoRes

SpecCanvas == InitCanvasSpec /\ [][NextCanvas]_vars

----------------------------------------------------------------------------
(* Drawing states saved and restored: a longer run of calls over few inputs *)

\* two drawing states that differ from Canvas::new's and from each other in
\* every field
StateSamples ==
    { [fg_color |-> HEADER_COLOR,
       bg_color |-> DEFAULT_FG_COLOR,
       clip_region |->
           set_clip_region(InitialState, RectNew(1, 1, WIDTH, HEIGHT)).clip_region,
       pen_size |-> 2,
       font_name |-> "proportional",
       font_scale |-> << 1, 2 >>],
      [fg_color |-> DEFAULT_FG_COLOR - HEADER_COLOR,
       bg_color |-> HEADER_COLOR,
       clip_region |->
           set_clip_region(InitialState, RectNew(0, 0, WIDTH, HEIGHT)).clip_region,
       pen_size |-> 3,
       font_name |-> "NotoSansMono",
       font_scale |-> << 2, 3 >>] }

\* a run of assignments to the fields of state (fg_color, bg_color, pen_size,
\* font_scale), set_named_font and set_clip_region with nothing in between
MutateState(t) ==
    \E st \in StateSamples : SetsState(t, "mutate_state", st, saved_state)

\* rectangles that reach beyond the surface on every side, on some sides, and
\* one that lies wholly beyond its far corner
ClipSamples ==
    { RectNew(0 - Margin, 0 - Margin, WIDTH + Margin, HEIGHT + Margin),
      RectNew(1, 0 - Margin, WIDTH + Margin, HEIGHT),
      RectNew(WIDTH + Margin, HEIGHT + Margin, WIDTH, HEIGHT) }

\* set_clip_region with one of the sample rectangles
SetClipRegionSample(t) ==
    \E r \in ClipSamples :
        SetsState(t, "set_clip_region", set_clip_region(state, r), saved_state)

CentrePixel == Pt(WIDTH \div 2, HEIGHT \div 2)

\* set_pixel on the centre of the surface
SetCentrePixel(t) == SetPixelAt(t, CentrePixel)

\* fill_rect on the whole surface
FillSurface(t) == FillRectAt(t, FULL_CLIP)

NextState ==
    \/ Save(MainRobot)
    \/ Restore(MainRobot)
    \/ MutateState(MainRobot)
    \/ SetClipRegionSample(MainRobot)
    \/ SetCentrePixel(MainRobot)
    \/ FillSurface(MainRobot)

InitStateSpec ==
    /\ InitCanvas
    /\ rpc = [t \in Robots |-> "idle"]
    /\ last_op = "none"
    /\ last_empty = FALSE
    /\ nops = 0
    /\ budget = MaxStateOps
    /\ save_hist = NoSave
    /\ InitSync
    /\ arg = NoArg
    /\ res = NoRes

SpecState == InitStateSpec /\ [][NextState]_vars

----------------------------------------------------------------------------
(* Pure functions of the geometry, applied to enumerated inputs *)

\* the clip regions CanvasState::set_clip_region can store
StoredClips == {set_clip_region(InitialState, r).clip_region : r \in Rects}

RangeEnds == (0 - RangeReach)..MaxRangeEnd
Ranges == RangeEnds \X RangeEnds

\* the characters a glyph is looked up for
Chars == 0..MaxChar

FnInputs ==
    [fn : {"clip_to"}, rect : Rects]
        \cup [fn : {"copy_rect"}, rect : Rects, clip : StoredClips,
              stride : Strides]
        \cup [fn : {"circle"}, center : Points, radius : Radii,
              clip : StoredClips]
        \cup [fn : {"clamp_range"}, source : Ranges, region : Ranges]
        \cup [fn : {"sdk_coordinates"}, x1 : XCoord, y1 : YCoord,
              x2 : XCoord, y2 : YCoord]
        \cup [fn : {"glyph_for_char"}, character : Chars,
              overflow_checks : BOOLEAN]

InitFn == arg \in FnInputs /\ res = NoRes

\* R.clip_to(&Rect::FULL_CLIP)
ApplyClipTo ==
    /\ arg.fn = "clip_to"
    /\ ~res.done
    /\ res' = [done |-> TRUE, out |-> clip_to(arg.rect, FULL_CLIP)]
    /\ UNCHANGED << arg, canvasVars, callVars, syncVars >>

\* copy_rect(bounds, source, stride) on a blank canvas under the clip region
ApplyCopyRect ==
    /\ arg.fn = "copy_rect"
    /\ ~res.done
    /\ res' = [done |-> TRUE,
               out |-> copy_rect(BlankBuffer,
                                 [InitialState EXCEPT !.clip_region = arg.clip],
                                 arg.rect, SourceImage, arg.stride)]
    /\ UNCHANGED << arg, canvasVars, callVars, syncVars >>

\* fill_circle(center, radius) on a blank canvas under the clip region, then
\* trace_circle(center, radius) on what it leaves; set_pixel(center) beside them
ApplyCircle ==
    /\ arg.fn = "circle"
    /\ ~res.done
    /\ LET st == [InitialState EXCEPT !.clip_region = arg.clip]
           filled == fill_circle(BlankBuffer, st, arg.center, arg.radius)
       IN  res' = [done |-> TRUE,
                   fill |-> filled,
                   fill_trace |-> trace_circle(filled.buffer, st, arg.center,
                                               arg.radius),
                   trace |-> trace_circle(BlankBuffer, st, arg.center,
                                          arg.radius),
                   pixel |-> set_pixel(BlankBuffer, st, arg.center)]
    /\ UNCHANGED << arg, canvasVars, callVars, syncVars >>

\* clamp_range(source, region)
ApplyClampRange ==
    /\ arg.fn = "clamp_range"
    /\ ~res.done
    /\ res' = [done |-> TRUE, out |-> clamp_range(arg.source, arg.region)]
    /\ UNCHANGED << arg, canvasVars, callVars, syncVars >>

\* the point vexDisplayPixelSet/Clear, LineDraw/Clear and CircleDraw/Fill/Clear
\* hand to Canvas
sdk_point(x, y) == Pt(x, y + HEADER_HEIGHT)

\* the region vexDisplayClipRegionSet hands to set_clip_region
sdk_clip_region(x1, y1, x2, y2) == RectNew(x1, y1, x2 + 1, y2 + 1)

\* what the SDK entry points make of the user coordinates (x1, y1), (x2, y2)
ApplySdkCoordinates ==
    /\ arg.fn = "sdk_coordinates"
    /\ ~res.done
    /\ res' = [done |-> TRUE,
               point |-> sdk_point(arg.x1, arg.y1),
               rect |-> from_sdk(arg.x1, arg.y1, arg.x2, arg.y2),
               clip |-> sdk_clip_region(arg.x1, arg.y1, arg.x2, arg.y2)]
    /\ UNCHANGED << arg, canvasVars, callVars, syncVars >>

\* the characters PreRenderedFont::new rasterizes
PRE_RENDERED_CHARS == 32..126

\* PreRenderedFont.characters: one glyph per pre-rendered character, in order;
\* a glyph is named by the character it was rasterized from
characters == [i \in 0..(Cardinality(PRE_RENDERED_CHARS) - 1) |-> 32 + i]

\* u8 subtraction: an overflow panics where overflow checks are compiled in
\* and wraps otherwise
u8_sub(a, b, overflow_checks) ==
    [value |-> (a - b + U8_VALUES) % U8_VALUES,
     panicked |-> overflow_checks /\ a < b]

\* PreRenderedFont::glyph_for_char
glyph_for_char(character, overflow_checks) ==
    LET start == 32 % U8_VALUES
        replacement_char == u8_sub(REPLACEMENT_CHAR, start, overflow_checks)
        idx == u8_sub(character % U8_VALUES, start, overflow_checks)
    IN  IF replacement_char.panicked \/ idx.panicked
        THEN [glyph |-> REPLACEMENT_CHAR, panicked |-> TRUE]
        ELSE [glyph |-> IF idx.value \in DOMAIN characters
                        THEN characters[idx.value]
                        ELSE characters[replacement_char.value],
              panicked |-> FALSE]

\* font.glyph_for_char(character)
ApplyGlyphForChar ==
    /\ arg.fn = "glyph_for_char"
    /\ ~res.done
    /\ res' = [done |-> TRUE,
               out |-> glyph_for_char(arg.character, arg.overflow_checks)]
    /\ UNCHANGED << arg, canvasVars, callVars, syncVars >>

NextGeom ==
    \/ ApplyGlyphForChar
    \/ ApplyClipTo
    \/ ApplyCopyRect
    \/ ApplyCircle
    \/ ApplyClampRange
    \/ ApplySdkCoordinates

InitGeomSpec == InitCanvas /\ InitCalls /\ InitSync /\ InitFn

SpecGeom == InitGeomSpec /\ [][NextGeom]_vars

----------------------------------------------------------------------------
(* The display compositor (display.rs:198-242)                             *)

RECURSIVE blit_pixels(_, _, _, _)
blit_pixels(buf, source, pts, k) ==
    IF k > Len(pts) THEN buf
    ELSE LET idx == pts[k].y * WIDTH + pts[k].x
         IN  blit_pixels([buf EXCEPT ![idx] = source[idx]], source, pts, k + 1)

\* SimDisplay::blit_rect: copy the pixels of mask from source onto the display
blit_rect(d, source, mask) ==
    [d EXCEPT !.buffer = blit_pixels(d.buffer, source, pixels(mask), 1)]

\* render_user_canvas with the mask of the whole surface whatever the mode
render_user_canvas_full(d, canvas_buffer) ==
    blit_rect(d, canvas_buffer, FULL_CLIP)

\* SimDisplay::render_user_canvas
render_user_canvas(d, canvas_buffer) ==
    LET mask == IF d.fullscreen THEN FULL_CLIP ELSE USER_CLIP
    IN  blit_rect(d, canvas_buffer, mask)

\* set_autorender that leaves the flag as it is
set_autorender_kept(d, autorender) == d

\* SimDisplay::set_autorender
set_autorender(d, autorender) == [d EXCEPT !.autorender = autorender]

\* do_render that leaves the composite pass to the next frame
do_render_deferred(d, canvas_buffer) == set_autorender(d, FALSE)

\* the closure do_render of vexDisplayRender
do_render(d, canvas_buffer) ==
    render_user_canvas(set_autorender(d, FALSE), canvas_buffer)

\* SIM_APP.get() that is not unwrapped
sim_app_get_unchecked(app) == "some"

\* SIM_APP.get().expect(..)
sim_app_get_expect(app) == IF app THEN "some" ELSE "panic"

\* Canvas::draw_header on the header canvas, whose state is that of Canvas::new
draw_header(buf) ==
    fill_rect(buf, [InitialState EXCEPT !.fg_color = HEADER_COLOR], HEADER_CLIP)

\* the window's framebuffer has the size of the display
FbWidth == WIDTH
FbHeight == HEIGHT

\* Resizer::resize_typed with ResizeAlg::Nearest: every framebuffer pixel takes
\* the display pixel its centre falls on
resize_nearest(src) ==
    [i \in 0..(FbWidth * FbHeight - 1) |->
        LET sx == ((2 * (i % FbWidth) + 1) * WIDTH) \div (2 * FbWidth)
            sy == ((2 * (i \div FbWidth) + 1) * HEIGHT) \div (2 * FbHeight)
        IN  src[sy * WIDTH + sx]]

\* FRAME_NOTIFY.notify_one(): a single waiter is woken
notify_frame_one(scheduled, pcs) ==
    LET waiters == {t \in DOMAIN pcs : pcs[t] = "waiting"}
    IN  IF scheduled /\ waiters # {}
        THEN [pcs EXCEPT ![CHOOSE t \in waiters : \A u \in waiters : t <= u] =
                             "woken"]
        ELSE pcs

\* FRAME_NOTIFY.notify_all() on every redraw, scheduled or not
notify_frame_every_redraw(scheduled, pcs) ==
    [t \in DOMAIN pcs |-> IF pcs[t] = "waiting" THEN "woken" ELSE pcs[t]]

\* if is_scheduled { FRAME_NOTIFY.notify_all() }
notify_frame(scheduled, pcs) ==
    IF scheduled
    THEN [t \in DOMAIN pcs |-> IF pcs[t] = "waiting" THEN "woken" ELSE pcs[t]]
    ELSE pcs

----------------------------------------------------------------------------
(* SDK calls of a robot-program thread (sdk/display.rs).  A panic in an     *)
(* extern "C" function aborts the process, so nothing runs after it.        *)

NoPanic == \A t \in DOMAIN rpc : rpc[t] # "panicked"

\* coordinates the SDK calls are made with (u32)
SdkXs == 0..WIDTH
SdkYs == 0..(HEIGHT - HEADER_HEIGHT)
\* corners vexDisplayRectFill is called with (i32): rows above the user area
\* included
SdkRectXs == {0, WIDTH - 1}
SdkRectYs == {0 - HEADER_HEIGHT, 0}

SdkCall(t, name) ==
    /\ rpc[t] = "idle"
    /\ nops < MaxCalls
    /\ last_op' = name
    /\ last_empty' = FALSE
    /\ nops' = nops + 1
    /\ save_hist' = [save_hist EXCEPT !.since = @ + 1]
    /\ UNCHANGED budget

\* colours the SDK calls are made with (u32): one with a bit of the high byte
\* set, 0x010099CC, among them
SdkColors == InputColors \cup {2^24 + HEADER_COLOR}

vexDisplayForegroundColor(t) ==
    \E col \in SdkColors :
        /\ SdkCall(t, "vexDisplayForegroundColor")
        /\ state' = [state EXCEPT !.fg_color = col]
        /\ UNCHANGED << buffer, saved_state, rpc, fnVars, syncVars >>

vexDisplayPixelSet(t) ==
    \E x \in SdkXs, y \in SdkYs :
        LET r == set_pixel(buffer, state, Pt(x, y + HEADER_HEIGHT))
        IN  /\ SdkCall(t, "vexDisplayPixelSet")
            /\ buffer' = r.buffer
            /\ rpc' = IF r.panicked THEN [rpc EXCEPT ![t] = "panicked"] ELSE rpc
            /\ UNCHANGED << state, saved_state, fnVars, syncVars >>

vexDisplayRectFill(t) ==
    \E x1 \in SdkRectXs, x2 \in SdkRectXs, y1 \in SdkRectYs, y2 \in SdkRectYs :
        LET r == fill_rect(buffer, state, from_sdk(x1, y1, x2, y2))
        IN  /\ SdkCall(t, "vexDisplayRectFill")
            /\ buffer' = r.buffer
            /\ rpc' = IF r.panicked THEN [rpc EXCEPT ![t] = "panicked"] ELSE rpc
            /\ UNCHANGED << state, saved_state, fnVars, syncVars >>

\* vexDisplayRender that takes the run_synced branch whatever bVsyncWait is
render_waits_always(bVsyncWait) == TRUE

\* if bVsyncWait { run_synced(do_render) } else { do_render(..) }
render_waits(bVsyncWait) == bVsyncWait

\* vexDisplayRender up to its return (bVsyncWait false) or up to the wait on
\* FRAME_NOTIFY, which releases DISPLAY (bVsyncWait true)
vexDisplayRender(t) ==
    \E bVsyncWait \in BOOLEAN :
        /\ SdkCall(t, "vexDisplayRender")
        /\ IF sim_app_get_expect(sim_app) = "panic"
           THEN /\ rpc' = [rpc EXCEPT ![t] = "panicked"]
                /\ UNCHANGED << canvasVars, fnVars, syncVars >>
           ELSE /\ display_lock = "free"
                /\ display' = do_render(display, buffer)
                /\ rpc' = [rpc EXCEPT
                              ![t] = IF render_waits(bVsyncWait) THEN "waiting"
                                     ELSE "idle"]
                /\ ack' = [ack EXCEPT ![t] = [NoAck EXCEPT !.waits = bVsyncWait]]
                /\ UNCHANGED << canvasVars, fnVars, sim_app, window_open,
                                has_scheduled_frame, header_buffer, display_lock,
                                wpc, is_scheduled, framebuffer, screen, pace, canvas_lock >>

\* run_synced after the notification: the wait takes DISPLAY again and the
\* call returns
RenderReturn(t) ==
    /\ rpc[t] = "woken"
    /\ display_lock = "free"
    /\ rpc' = [rpc EXCEPT ![t] = "idle"]
    /\ last_op' = "render_return"
    /\ ack' = [ack EXCEPT ![t] = NoAck]
    /\ pace' = IF pace.counting THEN [pace EXCEPT !.returns = @ + 1] ELSE pace
    /\ UNCHANGED canvas_lock
    /\ UNCHANGED << canvasVars, fnVars, last_empty, nops, budget, save_hist,
                    sim_app, window_open,
                    has_scheduled_frame, header_buffer, display, display_lock,
                    wpc, is_scheduled, framebuffer, screen >>

vexDisplayDoubleBufferDisable(t) ==
    /\ SdkCall(t, "vexDisplayDoubleBufferDisable")
    /\ display_lock = "free"
    /\ display' = set_autorender(display, TRUE)
    /\ UNCHANGED << canvasVars, fnVars, rpc, sim_app, window_open,
                    has_scheduled_frame, header_buffer, display_lock, wpc,
                    is_scheduled, framebuffer, screen, ack, pace, canvas_lock >>

----------------------------------------------------------------------------
(* The windowing thread (lib.rs:46-128, display.rs:44-194)                  *)

\* run_simulator up to the start of the event loop
RunSimulator ==
    /\ NoPanic
    /\ ~sim_app
    /\ sim_app' = TRUE
    /\ UNCHANGED << canvasVars, callVars, fnVars, window_open,
                    has_scheduled_frame, header_buffer, display, display_lock,
                    wpc, is_scheduled, framebuffer, screen, ack, pace, canvas_lock >>

\* Simulator::resumed: SimDisplayWindow::open
Resumed ==
    /\ NoPanic
    /\ sim_app
    /\ ~window_open
    /\ window_open' = TRUE
    /\ header_buffer' = BlankBuffer
    /\ has_scheduled_frame' = TRUE
    /\ UNCHANGED << canvasVars, callVars, fnVars, sim_app, display, display_lock,
                    wpc, is_scheduled, framebuffer, screen, ack, pace, canvas_lock >>

\* queue_redraw that requests the redraw without marking it as scheduled
queue_redraw_unmarked(scheduled) == scheduled

\* SimDisplayWindow::queue_redraw: has_scheduled_frame = true
queue_redraw(scheduled) == TRUE

\* Simulator::new_events on ResumeTimeReached: queue_redraw
TimerTick ==
    /\ NoPanic
    /\ window_open
    /\ wpc = "idle"
    /\ has_scheduled_frame' = queue_redraw(has_scheduled_frame)
    /\ UNCHANGED << canvasVars, callVars, fnVars, sim_app, window_open,
                    header_buffer, display, display_lock, wpc, is_scheduled,
                    framebuffer, screen, ack, pace, canvas_lock >>

\* a read of has_scheduled_frame that leaves the flag as it is
take_scheduled_frame_kept(scheduled) == scheduled

\* what mem::take leaves in has_scheduled_frame: bool::default()
take_scheduled_frame(scheduled) == FALSE

\* redraw, on a RedrawRequested the timer asked for or the window system sent:
\* DISPLAY.lock() and mem::take(has_scheduled_frame)
RedrawLock ==
    /\ NoPanic
    /\ window_open
    /\ wpc = "idle"
    /\ display_lock = "free"
    /\ display_lock' = "window"
    /\ is_scheduled' = has_scheduled_frame
    /\ has_scheduled_frame' = take_scheduled_frame(has_scheduled_frame)
    /\ wpc' = "locked"
    /\ ack' = [t \in DOMAIN ack |->
                  [ack[t] EXCEPT !.redraw = rpc[t] \in {"waiting", "woken"}]]
    /\ UNCHANGED << canvasVars, callVars, fnVars, sim_app, window_open,
                    header_buffer, display, framebuffer, screen, pace, canvas_lock >>

\* a scheduled frame that takes the user Canvas whatever autorender is
blits_user_canvas_always(scheduled, autorender) == scheduled

\* if is_scheduled { if disp.autorender { render_user_canvas } .. }
blits_user_canvas(scheduled, autorender) == scheduled /\ autorender

\* redraw: the composite pass of a scheduled frame, then the scaling
RedrawComposite ==
    /\ NoPanic
    /\ wpc = "locked"
    /\ LET d1 == IF blits_user_canvas(is_scheduled, display.autorender)
                 THEN render_user_canvas(display, buffer)
                 ELSE display
           with_header == is_scheduled /\ ~d1.fullscreen
           hdr == IF with_header THEN draw_header(header_buffer)
                  ELSE Done(header_buffer)
           d2 == IF with_header THEN blit_rect(d1, hdr.buffer, HEADER_CLIP)
                 ELSE d1
       IN  /\ header_buffer' = hdr.buffer
           /\ IF hdr.panicked
              THEN /\ wpc' = "panicked"
                   /\ UNCHANGED << display, framebuffer >>
              ELSE /\ wpc' = "composited"
                   /\ display' = d2
                   /\ framebuffer' = resize_nearest(d2.buffer)
    /\ UNCHANGED << canvasVars, callVars, fnVars, sim_app, window_open,
                    has_scheduled_frame, display_lock, is_scheduled, screen, ack,
                    pace, canvas_lock >>

\* redraw: the notification of a scheduled frame, then drop(disp)
RedrawNotify ==
    /\ NoPanic
    /\ wpc = "composited"
    /\ rpc' = notify_frame(is_scheduled, rpc)
    /\ display_lock' = "free"
    /\ wpc' = "presenting"
    /\ ack' = [t \in DOMAIN ack |->
                  [ack[t] EXCEPT !.notified = @ \/ (ack[t].redraw /\ is_scheduled)]]
    /\ pace' = IF /\ pace.counting
                  /\ is_scheduled
                  /\ \E t \in DOMAIN rpc : rpc[t] = "waiting"
               THEN [pace EXCEPT !.frames = @ + 1]
               ELSE pace
    /\ UNCHANGED canvas_lock
    /\ UNCHANGED << canvasVars, fnVars, last_op, last_empty, nops, budget,
                    save_hist, sim_app,
                    window_open, has_scheduled_frame, header_buffer, display,
                    is_scheduled, framebuffer, screen >>

\* redraw: framebuffer.present()
RedrawPresent ==
    /\ NoPanic
    /\ wpc = "presenting"
    /\ screen' = framebuffer
    /\ wpc' = "idle"
    /\ is_scheduled' = FALSE
    /\ ack' = [t \in DOMAIN ack |->
                  [ack[t] EXCEPT
                      !.presented = @ \/ (ack[t].redraw /\ is_scheduled),
                      !.redraw = FALSE]]
    /\ UNCHANGED << canvasVars, callVars, fnVars, sim_app, window_open,
                    has_scheduled_frame, header_buffer, display, display_lock,
                    framebuffer, pace, canvas_lock >>

\* handle_event on CloseRequested: event_loop.exit(); the windowing thread
\* handles no event after it
CloseRequested ==
    /\ NoPanic
    /\ window_open
    /\ wpc = "idle"
    /\ wpc' = "exited"
    /\ UNCHANGED << canvasVars, callVars, fnVars, sim_app, window_open,
                    has_scheduled_frame, header_buffer, display, display_lock,
                    is_scheduled, framebuffer, screen, ack, pace, canvas_lock >>

NextSync ==
    \/ vexDisplayForegroundColor(MainRobot)
    \/ vexDisplayPixelSet(MainRobot)
    \/ vexDisplayRectFill(MainRobot)
    \/ vexDisplayRender(MainRobot)
    \/ RenderReturn(MainRobot)
    \/ vexDisplayDoubleBufferDisable(MainRobot)
    \/ RunSimulator
    \/ Resumed
    \/ TimerTick
    \/ RedrawLock
    \/ RedrawComposite
    \/ RedrawNotify
    \/ RedrawPresent
    \/ CloseRequested

InitSyncSpec ==
    InitCanvas /\ InitCalls /\ InitSync /\ arg = NoArg /\ res = NoRes

SpecSync == InitSyncSpec /\ [][NextSync]_vars

\* The scheduling the liveness of a render rests on: the event loop starts
\* and opens the window; the 60 Hz timer fires whatever else the window is
\* sent (ControlFlow::WaitUntil), so a tick is taken if it is possible again
\* and again; a redraw that queue_redraw requested is delivered; a redraw
\* that began runs to its end; and the DISPLAY mutex hands the lock to a
\* woken waiter that finds it free again and again (parking_lot's eventual
\* fairness).  Nothing is assumed about redraws the window system sends on
\* its own, nor about the window being closed.
FairSync ==
    /\ WF_vars(RunSimulator)
    /\ WF_vars(Resumed)
    /\ SF_vars(TimerTick)
    /\ WF_vars(RedrawLock /\ has_scheduled_frame)
    /\ WF_vars(RedrawComposite)
    /\ WF_vars(RedrawNotify)
    /\ WF_vars(RedrawPresent)
    /\ SF_vars(RenderReturn(MainRobot))

\* the robot program makes render and double-buffer calls only
NextRender ==
    \/ vexDisplayRender(MainRobot)
    \/ RenderReturn(MainRobot)
    \/ vexDisplayDoubleBufferDisable(MainRobot)
    \/ RunSimulator
    \/ Resumed
    \/ TimerTick
    \/ RedrawLock
    \/ RedrawComposite
    \/ RedrawNotify
    \/ RedrawPresent
    \/ CloseRequested

SpecRenderFair == InitSyncSpec /\ [][NextRender]_vars /\ FairSync

\* the same calls, with the frames and the returns counted
InitPaceSpec ==
    /\ InitCanvas
    /\ InitCalls
    /\ InitDisplay
    /\ pace = [NoPace EXCEPT !.counting = TRUE]
    /\ arg = NoArg
    /\ res = NoRes

SpecPace == InitPaceSpec /\ [][NextRender]_vars

----------------------------------------------------------------------------
(* The two locks taken one by one: DISPLAY (display.rs:24) and CANVAS        *)
(* (canvas.rs:36), by the windowing thread and by two threads of the robot   *)
(* program.  A thread that needs a lock stays where it is until the lock is  *)
(* free.                                                                     *)

\* a second thread of the robot program
SecondRobot == 2
RobotThreads == {MainRobot, SecondRobot}

\* vexDisplayRender that takes CANVAS before DISPLAY
render_lock_order_reversed == << "CANVAS", "DISPLAY" >>

\* vexDisplayRender: DISPLAY.lock() (214, or 253 in run_synced), then
\* CANVAS.lock() inside do_render (206)
render_lock_order == << "DISPLAY", "CANVAS" >>

LockFree(lock) ==
    IF lock = "DISPLAY" THEN display_lock = "free" ELSE canvas_lock = "free"

\* Mutex::lock by who, once the lock is free
LockBy(lock, who) ==
    /\ LockFree(lock)
    /\ IF lock = "DISPLAY"
       THEN display_lock' = who /\ UNCHANGED canvas_lock
       ELSE canvas_lock' = who /\ UNCHANGED display_lock

\* the pixel the drawing call of this run writes
LockPixel == sdk_point(1, 0)

\* vexDisplayPixelSet is called: it needs CANVAS
PixelSetCall(t) ==
    /\ SdkCall(t, "vexDisplayPixelSet")
    /\ rpc' = [rpc EXCEPT ![t] = "draw_lock"]
    /\ UNCHANGED << canvasVars, fnVars, syncVars >>

\* CANVAS.lock() and set_pixel
PixelSetLock(t) ==
    /\ NoPanic
    /\ rpc[t] = "draw_lock"
    /\ LockBy("CANVAS", "robot")
    /\ LET r == set_pixel(buffer, state, LockPixel)
       IN  /\ buffer' = r.buffer
           /\ rpc' = [rpc EXCEPT
                         ![t] = IF r.panicked THEN "panicked" ELSE "draw_held"]
    /\ UNCHANGED << state, saved_state, last_op, last_empty, nops, budget,
                    save_hist, fnVars, sim_app, window_open, has_scheduled_frame,
                    header_buffer, display, wpc, is_scheduled, framebuffer,
                    screen, ack, pace >>

\* the guard of CANVAS is dropped at the end of the call
PixelSetUnlock(t) ==
    /\ NoPanic
    /\ rpc[t] = "draw_held"
    /\ canvas_lock' = "free"
    /\ rpc' = [rpc EXCEPT ![t] = "idle"]
    /\ UNCHANGED << canvasVars, fnVars, last_op, last_empty, nops, budget,
                    save_hist, sim_app, window_open, has_scheduled_frame,
                    header_buffer, display, display_lock, wpc, is_scheduled,
                    framebuffer, screen, ack, pace >>

\* vexDisplayRender is called: SIM_APP is looked up, then the first lock is
\* needed
RenderCall(t) ==
    \E bVsyncWait \in BOOLEAN :
        /\ SdkCall(t, "vexDisplayRender")
        /\ IF sim_app_get_expect(sim_app) = "panic"
           THEN /\ rpc' = [rpc EXCEPT ![t] = "panicked"]
                /\ UNCHANGED ack
           ELSE /\ rpc' = [rpc EXCEPT ![t] = "render_lock_first"]
                /\ ack' = [ack EXCEPT ![t] = [NoAck EXCEPT !.waits = bVsyncWait]]
        /\ UNCHANGED << canvasVars, fnVars, sim_app, window_open,
                        has_scheduled_frame, header_buffer, display,
                        display_lock, wpc, is_scheduled, framebuffer, screen,
                        pace, canvas_lock >>

\* the first lock of the render is taken
RenderLockFirst(t) ==
    /\ NoPanic
    /\ rpc[t] = "render_lock_first"
    /\ LockBy(render_lock_order[1], "robot")
    /\ rpc' = [rpc EXCEPT ![t] = "render_lock_second"]
    /\ UNCHANGED << canvasVars, fnVars, last_op, last_empty, nops, budget,
                    save_hist, sim_app, window_open, has_scheduled_frame,
                    header_buffer, display, wpc, is_scheduled, framebuffer,
                    screen, ack, pace >>

\* the second lock of the render is taken and do_render runs
RenderLockSecond(t) ==
    /\ NoPanic
    /\ rpc[t] = "render_lock_second"
    /\ LockBy(render_lock_order[2], "robot")
    /\ display' = do_render(display, buffer)
    /\ rpc' = [rpc EXCEPT ![t] = "render_held"]
    /\ UNCHANGED << canvasVars, fnVars, last_op, last_empty, nops, budget,
                    save_hist, sim_app, window_open, has_scheduled_frame,
                    header_buffer, wpc, is_scheduled, framebuffer, screen, ack,
                    pace >>

\* the guard of CANVAS is dropped; then FRAME_NOTIFY.wait releases DISPLAY, or
\* the guard of DISPLAY is dropped and the call returns
RenderUnlock(t) ==
    /\ NoPanic
    /\ rpc[t] = "render_held"
    /\ canvas_lock' = "free"
    /\ display_lock' = "free"
    /\ rpc' = [rpc EXCEPT
                  ![t] = IF render_waits(ack[t].waits) THEN "waiting" ELSE "idle"]
    /\ UNCHANGED << canvasVars, fnVars, last_op, last_empty, nops, budget,
                    save_hist, sim_app, window_open, has_scheduled_frame,
                    header_buffer, display, wpc, is_scheduled, framebuffer,
                    screen, ack, pace >>

\* vexDisplayDoubleBufferDisable is called: it needs DISPLAY
DoubleBufferDisableCall(t) ==
    /\ SdkCall(t, "vexDisplayDoubleBufferDisable")
    /\ rpc' = [rpc EXCEPT ![t] = "disable_lock"]
    /\ UNCHANGED << canvasVars, fnVars, syncVars >>

\* DISPLAY.lock() and set_autorender(true)
DoubleBufferDisableLock(t) ==
    /\ NoPanic
    /\ rpc[t] = "disable_lock"
    /\ LockBy("DISPLAY", "robot")
    /\ display' = set_autorender(display, TRUE)
    /\ rpc' = [rpc EXCEPT ![t] = "disable_held"]
    /\ UNCHANGED << canvasVars, fnVars, last_op, last_empty, nops, budget,
                    save_hist, sim_app, window_open, has_scheduled_frame,
                    header_buffer, wpc, is_scheduled, framebuffer, screen, ack,
                    pace >>

\* the guard of DISPLAY is dropped at the end of the call
DoubleBufferDisableUnlock(t) ==
    /\ NoPanic
    /\ rpc[t] = "disable_held"
    /\ display_lock' = "free"
    /\ rpc' = [rpc EXCEPT ![t] = "idle"]
    /\ UNCHANGED << canvasVars, fnVars, last_op, last_empty, nops, budget,
                    save_hist, sim_app, window_open, has_scheduled_frame,
                    header_buffer, display, wpc, is_scheduled, framebuffer,
                    screen, ack, pace, canvas_lock >>

\* handle_event on RedrawRequested: redraw is entered and needs DISPLAY
RedrawRequested ==
    /\ NoPanic
    /\ window_open
    /\ wpc = "idle"
    /\ wpc' = "redraw_lock"
    /\ UNCHANGED << canvasVars, callVars, fnVars, sim_app, window_open,
                    has_scheduled_frame, header_buffer, display, display_lock,
                    is_scheduled, framebuffer, screen, ack, pace, canvas_lock >>

\* redraw: DISPLAY.lock() and mem::take(has_scheduled_frame); CANVAS is needed
\* next if the frame takes the user Canvas
RedrawLockDisplay ==
    /\ NoPanic
    /\ wpc = "redraw_lock"
    /\ LockBy("DISPLAY", "window")
    /\ is_scheduled' = has_scheduled_frame
    /\ has_scheduled_frame' = take_scheduled_frame(has_scheduled_frame)
    /\ wpc' = IF blits_user_canvas(has_scheduled_frame, display.autorender)
              THEN "canvas_lock"
              ELSE "locked"
    /\ ack' = [t \in DOMAIN ack |->
                  [ack[t] EXCEPT !.redraw = rpc[t] \in {"waiting", "woken"}]]
    /\ UNCHANGED << canvasVars, callVars, fnVars, sim_app, window_open,
                    header_buffer, display, framebuffer, screen, pace >>

\* redraw: CANVAS.lock() and render_user_canvas
RedrawLockCanvas ==
    /\ NoPanic
    /\ wpc = "canvas_lock"
    /\ LockBy("CANVAS", "window")
    /\ display' = render_user_canvas(display, buffer)
    /\ wpc' = "canvas_held"
    /\ UNCHANGED << canvasVars, callVars, fnVars, sim_app, window_open,
                    has_scheduled_frame, header_buffer, is_scheduled,
                    framebuffer, screen, ack, pace >>

\* redraw: the guard of CANVAS is dropped at the end of the if block
RedrawUnlockCanvas ==
    /\ NoPanic
    /\ wpc = "canvas_held"
    /\ canvas_lock' = "free"
    /\ wpc' = "locked"
    /\ UNCHANGED << canvasVars, callVars, fnVars, sim_app, window_open,
                    has_scheduled_frame, header_buffer, display, display_lock,
                    is_scheduled, framebuffer, screen, ack, pace >>

\* redraw: the header of a scheduled frame, then the scaling
RedrawHeader ==
    /\ NoPanic
    /\ wpc = "locked"
    /\ LET with_header == is_scheduled /\ ~display.fullscreen
           hdr == IF with_header THEN draw_header(header_buffer)
                  ELSE Done(header_buffer)
           d2 == IF with_header THEN blit_rect(display, hdr.buffer, HEADER_CLIP)
                 ELSE display
       IN  /\ header_buffer' = hdr.buffer
           /\ IF hdr.panicked
              THEN /\ wpc' = "panicked"
                   /\ UNCHANGED << display, framebuffer >>
              ELSE /\ wpc' = "composited"
                   /\ display' = d2
                   /\ framebuffer' = resize_nearest(d2.buffer)
    /\ UNCHANGED << canvasVars, callVars, fnVars, sim_app, window_open,
                    has_scheduled_frame, display_lock, is_scheduled, screen, ack,
                    pace, canvas_lock >>

NextLocks ==
    \/ \E t \in RobotThreads :
           \/ PixelSetCall(t)
           \/ PixelSetLock(t)
           \/ PixelSetUnlock(t)
           \/ RenderCall(t)
           \/ RenderLockFirst(t)
           \/ RenderLockSecond(t)
           \/ RenderUnlock(t)
           \/ RenderReturn(t)
           \/ DoubleBufferDisableCall(t)
           \/ DoubleBufferDisableLock(t)
           \/ DoubleBufferDisableUnlock(t)
    \/ RunSimulator
    \/ Resumed
    \/ TimerTick
    \/ RedrawRequested
    \/ RedrawLockDisplay
    \/ RedrawLockCanvas
    \/ RedrawUnlockCanvas
    \/ RedrawHeader
    \/ RedrawNotify
    \/ RedrawPresent
    \/ CloseRequested

InitLocksSpec ==
    /\ InitCanvas
    /\ rpc = [t \in RobotThreads |-> "idle"]
    /\ last_op = "none"
    /\ last_empty = FALSE
    /\ nops = 0
    /\ budget = MaxOps
    /\ save_hist = NoSave
    /\ sim_app = FALSE
    /\ window_open = FALSE
    /\ has_scheduled_frame = FALSE
    /\ header_buffer = BlankBuffer
    /\ display = SimDisplayNew
    /\ display_lock = "free"
    /\ canvas_lock = "free"
    /\ wpc = "idle"
    /\ is_scheduled = FALSE
    /\ framebuffer = BlankBuffer
    /\ screen = BlankBuffer
    /\ ack = [t \in RobotThreads |-> NoAck]
    /\ pace = NoPace
    /\ arg = NoArg
    /\ res = NoRes

SpecLocks == InitLocksSpec /\ [][NextLocks]_vars

\* render requests only, by the two threads
NextBroadcast ==
    \/ \E t \in RobotThreads :
           \/ RenderCall(t)
           \/ RenderLockFirst(t)
           \/ RenderLockSecond(t)
           \/ RenderUnlock(t)
           \/ RenderReturn(t)
    \/ RunSimulator
    \/ Resumed
    \/ TimerTick
    \/ RedrawRequested
    \/ RedrawLockDisplay
    \/ RedrawLockCanvas
    \/ RedrawUnlockCanvas
    \/ RedrawHeader
    \/ RedrawNotify
    \/ RedrawPresent

\* what a render request does once it is past its first lock
RenderProceeds(t) ==
    \/ RenderLockSecond(t)
    \/ RenderUnlock(t)
    \/ RenderReturn(t)

\* what a redraw does once it holds DISPLAY, up to dropping it, but for the
\* header and the scaling
RedrawProceeds ==
    \/ RedrawLockCanvas
    \/ RedrawUnlockCanvas
    \/ RedrawNotify

\* the step of RedrawHeader, told by the position of the windowing thread
RedrawHeaderDone ==
    /\ NoPanic
    /\ wpc = "locked"
    /\ wpc' \in {"composited", "panicked"}

\* The scheduling the return of a woken render rests on: a thread that holds a
\* lock goes on to release it, and a mutex that is free again and again is
\* given to each thread that needs it (parking_lot's eventual fairness).
\* Nothing is assumed about the calls the robot program makes, nor about the
\* redraws and ticks of the windowing thread before it holds a lock.
FairLocks ==
    /\ \A t \in RobotThreads : SF_vars(RenderProceeds(t))
    /\ SF_vars(RedrawProceeds)
    /\ WF_wpc(RedrawHeaderDone)

SpecBroadcastFair == InitLocksSpec /\ [][NextBroadcast]_vars /\ FairLocks

----------------------------------------------------------------------------
(* Claims about the Canvas primitives *)

\* the pixel of buffer index i
PixelOf(i) == Pt(i % WIDTH, i \div WIDTH)

\* half-open containment, stated on the coordinates
InRegion(x, y, r) ==
    r.min.x <= x /\ x < r.max.x /\ r.min.y <= y /\ y < r.max.y

\* a rectangle that lies within the full surface
WithinSurface(r) ==
    /\ 0 <= r.min.x /\ r.min.x <= r.max.x /\ r.max.x <= WIDTH
    /\ 0 <= r.min.y /\ r.min.y <= r.max.y /\ r.max.y <= HEIGHT

DrawOps ==
    {"set_pixel", "draw_horizontal_line", "draw_vertical_line", "draw_line",
     "fill_rect", "trace_rect", "fill_circle", "trace_circle", "copy_rect"}

\* C1 (clip safety): no call changes a pixel of the buffer that lies outside
\* the clip region in force when the call is made.
C1_ClipSafety ==
    [][\A i \in 0..(BUFSZ - 1) :
          ~InRegion(PixelOf(i).x, PixelOf(i).y, state.clip_region)
              => buffer'[i] = buffer[i]]_vars

\* a drawing call has painted inside a clip region smaller than the surface,
\* and a pixel outside the region is untouched
C1_Witness ==
    /\ last_op \in DrawOps
    /\ state.clip_region = Rc(Pt(0, 0), Pt(2, 2))
    /\ buffer[0] = DEFAULT_FG_COLOR
    /\ buffer[2] = 0

\* C7 (set_pixel's effect): set_pixel(p) sets the pixel at p to fg_color and
\* changes no other pixel when p is inside the clip region (half-open on both
\* axes), and leaves the whole buffer unchanged otherwise.
C7_SetPixelEffect ==
    [][(last_op' = "set_pixel" /\ nops' = nops + 1) =>
          \A p \in Points :
              SetPixelAt(MainRobot, p) =>
                  /\ rpc' = rpc
                  /\ buffer' = IF InRegion(p.x, p.y, state.clip_region)
                               THEN [buffer EXCEPT
                                        ![p.y * WIDTH + p.x] = state.fg_color]
                               ELSE buffer]_vars

\* set_pixel has painted the centre pixel under a clip region set by the program
C7_Witness ==
    /\ last_op = "set_pixel"
    /\ state.clip_region = Rc(Pt(0, 0), Pt(2, 2))
    /\ buffer = [BlankBuffer EXCEPT ![1 * WIDTH + 1] = DEFAULT_FG_COLOR]

\* C8 (clip_to on the full surface): a rectangle that lies within the full
\* surface, FULL_CLIP itself included, is left unchanged by clip_to(FULL_CLIP).
C8_ClipToFullIsIdentity ==
    (res.done /\ arg.fn = "clip_to" /\ WithinSurface(arg.rect))
        => (~res.out.panicked /\ res.out.rect = arg.rect)

\* C9 (line primitives are total): under every clip region set_clip_region can
\* store and for every input range, draw_horizontal_line, draw_vertical_line
\* and trace_rect complete without panicking, and a line whose clamped range
\* is empty draws nothing.
C9_LinePrimitivesTotal ==
    [][(/\ last_op' \in {"draw_horizontal_line", "draw_vertical_line", "trace_rect"}
        /\ nops' = nops + 1) =>
          /\ rpc'[MainRobot] # "panicked"
          /\ last_empty' => buffer' = buffer]_vars

\* C10 (fill_rect and copy_rect are total): for every bounds and every clip
\* region set_clip_region can store the call completes without failure, and
\* when bounds and the clip region do not intersect no pixel is changed.
C10_RectPrimitivesTotal ==
    [][(last_op' \in {"fill_rect", "copy_rect"} /\ nops' = nops + 1) =>
          /\ rpc'[MainRobot] # "panicked"
          /\ last_empty' => buffer' = buffer]_vars

----------------------------------------------------------------------------
(* Claims about the compositor and the frame synchronizer *)

\* buffer indices of the user-drawable area and of the header band
UserArea ==
    {i \in 0..(BUFSZ - 1) : InRegion(PixelOf(i).x, PixelOf(i).y, USER_CLIP)}
HeaderBand ==
    {i \in 0..(BUFSZ - 1) : InRegion(PixelOf(i).x, PixelOf(i).y, HEADER_CLIP)}

\* the step in which thread t returns from an acknowledged render
Returns(t) == rpc[t] = "woken" /\ rpc'[t] = "idle"

\* the step is the SDK call name
Calls(name) == last_op' = name /\ nops' = nops + 1

\* C2 (acknowledged-render visibility): when vexDisplayRender with bVsyncWait
\* returns, the visible buffer holds, at every position of the user-drawable
\* area, the colour the robot program wrote into the user Canvas before the
\* call, whatever the windowing thread's redraws did in between.
C2_AckRenderVisible ==
    [][Returns(MainRobot) =>
          \A i \in UserArea : display'.buffer[i] = buffer'[i]]_vars

\* an acknowledged render has returned after a pixel write and the pixel is in
\* the visible buffer
C2_Witness ==
    /\ last_op = "render_return"
    /\ buffer[1 * WIDTH + 1] = DEFAULT_FG_COLOR
    /\ display.buffer[1 * WIDTH + 1] = DEFAULT_FG_COLOR

\* C3 as stated (acknowledged render returns only after presentation): when
\* the acknowledged render returns, a scheduled redraw that took DISPLAY after
\* the request's composite pass has completed framebuffer.present().
C3_ReturnsAfterPresent ==
    [][Returns(MainRobot) => ack[MainRobot].presented]_vars

\* C3 as the code has it: when the acknowledged render returns, a scheduled
\* redraw that took DISPLAY after the request's composite pass has scaled the
\* visible buffer into the framebuffer and sent its notification, so the state
\* of the request is in the frame handed to presentation; the present itself
\* may still be pending.
C3_ReturnsAfterNotify ==
    [][Returns(MainRobot) =>
          /\ ack[MainRobot].notified
          /\ framebuffer = resize_nearest(display.buffer)
          /\ \A i \in UserArea : display.buffer[i] = buffer[i]]_vars

\* the acknowledged render has returned while the frame that holds the pixel
\* is not presented yet
C3_Witness ==
    /\ last_op = "render_return"
    /\ wpc = "presenting"
    /\ buffer[1 * WIDTH + 1] = DEFAULT_FG_COLOR
    /\ framebuffer[1 * WIDTH + 1] = DEFAULT_FG_COLOR
    /\ screen[1 * WIDTH + 1] = 0

\* C4 (autorender under explicit rendering): a render request that gets past
\* the SIM_APP check sets autorender to false; autorender then stays false
\* across every step that is not vexDisplayDoubleBufferDisable; and that call
\* leaves autorender true.
C4_AutorenderOffUntilDisable ==
    [][/\ (Calls("vexDisplayRender") /\ rpc'[MainRobot] # "panicked")
              => ~display'.autorender
       /\ (~display.autorender /\ ~Calls("vexDisplayDoubleBufferDisable"))
              => ~display'.autorender
       /\ Calls("vexDisplayDoubleBufferDisable") => display'.autorender]_vars

\* after an explicit render, a drawing call and the composite pass of a
\* scheduled redraw have gone by and autorender is still false: the new pixel
\* was not composited
C4_Witness ==
    /\ ~display.autorender
    /\ last_op = "vexDisplayPixelSet"
    /\ wpc = "composited"
    /\ is_scheduled
    /\ buffer[1 * WIDTH + 1] = DEFAULT_FG_COLOR
    /\ display.buffer[1 * WIDTH + 1] = 0

\* C5 (render before the windowing thread exists): vexDisplayRender called
\* while SIM_APP is unset panics, and the user Canvas, the visible buffer, the
\* autorender flag and the rest of the shared state are as they were.
C5_RenderWithoutAppPanics ==
    [][(~sim_app /\ Calls("vexDisplayRender")) =>
          /\ rpc'[MainRobot] = "panicked"
          /\ UNCHANGED << canvasVars, syncVars >>]_vars

\* a render request made before run_simulator, after a pixel was drawn, has
\* panicked
C5_Witness ==
    /\ ~sim_app
    /\ last_op = "vexDisplayRender"
    /\ rpc[MainRobot] = "panicked"
    /\ buffer[1 * WIDTH + 1] = DEFAULT_FG_COLOR
    /\ display = SimDisplayNew

\* C6 (the header overlays the user canvas): while fullscreen is false, every
\* pixel of the header band in the visible buffer equals the header Canvas's
\* pixel at that position, after every composite pass and every explicit
\* render.
C6_HeaderOverlaysUserCanvas ==
    ~display.fullscreen =>
        \A i \in HeaderBand : display.buffer[i] = header_buffer[i]

\* an explicit render has followed a scheduled composite pass while the user
\* Canvas holds a painted pixel in the header band: the header band shows the
\* header and the user area shows the user Canvas
C6_Witness ==
    /\ last_op = "vexDisplayRender"
    /\ ~display.fullscreen
    /\ buffer[0] = DEFAULT_FG_COLOR
    /\ display.buffer[0] = HEADER_COLOR
    /\ header_buffer[0] = HEADER_COLOR
    /\ display.buffer[1 * WIDTH + 1] = DEFAULT_FG_COLOR

----------------------------------------------------------------------------
(* Claims about the pure functions *)

\* C11 (copy_rect keeps the source alignment under clipping): every pixel
\* (col, row) that copy_rect writes receives
\* source[(row - B.min.y) * stride + (col - B.min.x)], B being the bounds
\* before clipping.  (The source pixels are all different from the blank
\* canvas, so a written pixel is one that is not blank.)
C11_CopyRectAlignment ==
    (res.done /\ arg.fn = "copy_rect" /\ ~res.out.panicked) =>
        \A i \in 0..(BUFSZ - 1) :
            res.out.buffer[i] # BlankBuffer[i] =>
                res.out.buffer[i] =
                    SourceImage[(PixelOf(i).y - arg.rect.min.y) * arg.stride
                                + (PixelOf(i).x - arg.rect.min.x)]

\* C13 (circle boundary containment): when fill_circle(center, r) has returned,
\* trace_circle(center, r) with the same colour returns and changes no pixel;
\* and for r = 0 fill_circle and trace_circle each do what set_pixel(center)
\* does, under every clip region set_clip_region can store.
C13_CircleContainment ==
    (res.done /\ arg.fn = "circle") =>
        /\ ~res.fill.panicked => res.fill_trace = res.fill
        /\ arg.radius = 0 => (res.fill = res.pixel /\ res.trace = res.pixel)

Max2(a, b) == IF a > b THEN a ELSE b
Min2(a, b) == IF a < b THEN a ELSE b

HalfOpenOnCanvas(x1, y1, x2, y2) ==
    [min |-> [x |-> Min2(x1, x2), y |-> Min2(y1, y2) + HEADER_HEIGHT],
     max |-> [x |-> Max2(x1, x2) + 1, y |-> Max2(y1, y2) + HEADER_HEIGHT + 1]]

\* C16 (boundary coordinate convention): every SDK entry point adds
\* HEADER_HEIGHT to the user's y-coordinates, and turns an inclusive rectangle
\* into the half-open one by normalizing the corners and then adding one to
\* the max corner: for points, for the rectangles of RectDraw/Fill/Clear and
\* CopyRect, and for the region of ClipRegionSet.
C16_SdkCoordinateConvention ==
    (res.done /\ arg.fn = "sdk_coordinates") =>
        /\ res.point = [x |-> arg.x1, y |-> arg.y1 + HEADER_HEIGHT]
        /\ res.rect = HalfOpenOnCanvas(arg.x1, arg.y1, arg.x2, arg.y2)
        /\ res.clip = HalfOpenOnCanvas(arg.x1, arg.y1, arg.x2, arg.y2)

\* C18 (glyph lookup): for every character glyph_for_char returns without
\* panicking, the character's own glyph when the character is in 32..=126 and
\* the glyph of '.' for every other character.
C18_GlyphLookup ==
    (arg.fn = "glyph_for_char" /\ res.done) =>
        /\ ~res.out.panicked
        /\ res.out.glyph = IF arg.character \in 32..126 THEN arg.character
                           ELSE REPLACEMENT_CHAR

----------------------------------------------------------------------------
(* Claims about colours *)

\* the high byte of a 32-bit colour
HighByte(c) == c \div 2^24

\* C15 (colour encoding): every pixel of the canvas buffer and of the visible
\* buffer has its high byte equal to zero, whatever 32-bit colours the
\* colour-setting calls were given.
C15_HighByteZero ==
    \A i \in 0..(BUFSZ - 1) :
        HighByte(buffer[i]) = 0 /\ HighByte(display.buffer[i]) = 0

----------------------------------------------------------------------------
(* Claims about the drawing state *)

\* C12 (save/restore is a single-slot round trip): restore makes every field
\* of state equal to its value at the most recent save (at Canvas::new when
\* there was none), whatever state mutations, drawing calls, earlier saves and
\* earlier restores came in between, and it leaves the pixel buffer alone.
C12_SaveRestoreRoundTrip ==
    [][Calls("restore") =>
          /\ state' = save_hist.at
          /\ buffer' = buffer
          /\ rpc' = rpc]_vars

\* restore has brought back the state of the second save, over a mutation and
\* a drawing call made after it with another state
C12_Witness ==
    /\ last_op = "restore"
    /\ save_hist.saves = 2
    /\ save_hist.since = 3
    /\ state.fg_color = HEADER_COLOR
    /\ state.font_name = "proportional"
    /\ buffer[CentrePixel.y * WIDTH + CentrePixel.x] = DEFAULT_FG_COLOR - HEADER_COLOR

----------------------------------------------------------------------------
(* Claims about explicit renders and redraws *)

\* buffer indices of the mask render_user_canvas uses
MaskedArea == IF display.fullscreen THEN 0..(BUFSZ - 1) ELSE UserArea

\* the step is a vexDisplayRender(bVsyncWait = false) that got past SIM_APP
RendersWithoutWait(t) ==
    Calls("vexDisplayRender") /\ sim_app /\ ~ack'[t].waits

\* C17 as stated (non-acknowledging render): the call composites at once, on
\* return the masked area of the visible buffer equals the user Canvas, it does
\* not wait and schedules nothing; and what it composited is presented only by
\* a scheduled redraw: while it is the latest call, the present of a redraw
\* that was not scheduled puts nothing new on the screen.
C17_PresentedOnlyOnScheduledTick ==
    [][/\ RendersWithoutWait(MainRobot) =>
              /\ rpc'[MainRobot] = "idle"
              /\ \A i \in MaskedArea : display'.buffer[i] = buffer'[i]
              /\ UNCHANGED << has_scheduled_frame, wpc, framebuffer, screen >>
       /\ (/\ last_op = "vexDisplayRender" /\ rpc[MainRobot] = "idle"
           /\ wpc = "presenting" /\ wpc' = "idle" /\ ~is_scheduled)
              => screen' = screen]_vars

\* C17 as the code has it: the call composites at once, on return the masked
\* area of the visible buffer equals the user Canvas, it does not wait, and it
\* neither schedules a frame nor touches the framebuffer or the screen; what
\* it composited is scaled into the framebuffer by the next redraw, scheduled
\* or not.
C17_RenderWithoutWait ==
    [][/\ RendersWithoutWait(MainRobot) =>
              /\ rpc'[MainRobot] = "idle"
              /\ \A i \in MaskedArea : display'.buffer[i] = buffer'[i]
              /\ UNCHANGED << has_scheduled_frame, wpc, framebuffer, screen >>
       /\ (wpc = "locked" /\ wpc' = "composited")
              => framebuffer' = resize_nearest(display'.buffer)]_vars

\* a render without wait has returned after a pixel write: the pixel is in the
\* visible buffer, no frame is scheduled and nothing of it is presented
C17_Witness ==
    /\ last_op = "vexDisplayRender"
    /\ rpc[MainRobot] = "idle"
    /\ window_open
    /\ wpc = "idle"
    /\ ~has_scheduled_frame
    /\ display.buffer[1 * WIDTH + 1] = DEFAULT_FG_COLOR
    /\ framebuffer[1 * WIDTH + 1] = 0
    /\ screen[1 * WIDTH + 1] = 0

----------------------------------------------------------------------------
(* Claims about the clip region *)

\* the region lies within the full surface, corners in order
WithinFullSurface(region) ==
    /\ 0 <= region.min.x /\ region.min.x <= region.max.x
    /\ region.max.x <= WIDTH
    /\ 0 <= region.min.y /\ region.min.y <= region.max.y
    /\ region.max.y <= HEIGHT

\* every point that passes the clip test of the region has its buffer index
\* y * WIDTH + x within the buffer
IndexInBuffer(region) ==
    \A p \in Points :
        is_inside(p, region) => (p.y * WIDTH + p.x) \in 0..(BUFSZ - 1)

\* C19 (clip region invariant): in every reachable canvas state, after any
\* sequence of set_clip_region with arbitrary rectangles, save and restore, the
\* clip region (and the saved one, which restore makes current) lies within the
\* full surface, 0 <= min <= max <= (WIDTH, HEIGHT), and every buffer index
\* computed for a point that passed the clip test is within [0, WIDTH*HEIGHT).
C19_ClipRegionInvariant ==
    /\ WithinFullSurface(state.clip_region)
    /\ WithinFullSurface(saved_state.clip_region)
    /\ IndexInBuffer(state.clip_region)
    /\ IndexInBuffer(saved_state.clip_region)
    /\ \A r \in Rects :
           LET stored == set_clip_region(state, r).clip_region
           IN  WithinFullSurface(stored) /\ IndexInBuffer(stored)

\* a clip region cut down by set_clip_region was saved, replaced by another one
\* that was cut down too, and the pixel written after that passed its clip test
C19_Witness ==
    /\ last_op = "set_pixel"
    /\ save_hist.saves = 1
    /\ save_hist.since = 2
    /\ saved_state.clip_region = Rc(Pt(0, 0), Pt(WIDTH - 1, HEIGHT - 1))
    /\ state.clip_region = Rc(Pt(1, 0), Pt(WIDTH - 1, HEIGHT - 1))
    /\ saved_state.fg_color = DEFAULT_FG_COLOR
    /\ buffer[CentrePixel.y * WIDTH + CentrePixel.x] = DEFAULT_FG_COLOR

----------------------------------------------------------------------------
(* Claims about the liveness of renders *)

\* C20 (liveness of the acknowledged render): with fairness on the timer tick
\* and on redraw, if the windowing thread never stops, every acknowledging
\* render request that waits eventually returns; and once the windowing thread
\* has stopped while a request waits, the request waits forever.
C20_AckRenderLiveness ==
    /\ [](wpc # "exited") =>
           ((rpc[MainRobot] = "waiting") ~> (rpc[MainRobot] = "idle"))
    /\ []((rpc[MainRobot] = "waiting" /\ wpc = "exited") =>
              [](rpc[MainRobot] = "waiting"))

\* the last call the robot program could make is an acknowledging render that
\* waits, and the windowing thread has stopped after presenting a frame
C20_Witness ==
    /\ rpc[MainRobot] = "waiting"
    /\ ack[MainRobot].waits
    /\ wpc = "exited"
    /\ nops = MaxCalls
    /\ screen[0] = HEADER_COLOR

----------------------------------------------------------------------------
(* Claims about scheduled and unscheduled redraws *)

\* the steps of a redraw, told by the position of the windowing thread
RedrawBegins == wpc = "idle" /\ wpc' = "locked"
RedrawComposites == wpc = "locked" /\ wpc' = "composited"
RedrawNotifies == wpc = "composited" /\ wpc' = "presenting"

\* C21 (only scheduled frames composite and notify): a redraw that began while
\* has_scheduled_frame was false leaves the visible buffer unchanged and wakes
\* no waiter; a redraw that began while it was true runs the composite pass
\* (the user Canvas into the masked area if autorender, then the header Canvas
\* drawn and copied over its band), wakes every waiter and has reset has_scheduled_frame to false; no
\* frame is scheduled while a redraw runs, so a queue_redraw is consumed by one
\* redraw only.
C21_OnlyScheduledFrames ==
    [][/\ RedrawBegins =>
              /\ is_scheduled' = has_scheduled_frame
              /\ ~has_scheduled_frame'
       /\ (RedrawComposites /\ ~is_scheduled) => display' = display
       /\ (RedrawNotifies /\ ~is_scheduled) => rpc' = rpc
       /\ (RedrawComposites /\ is_scheduled) =>
              /\ header_buffer' = draw_header(header_buffer).buffer
              /\ \A i \in HeaderBand : display'.buffer[i] = header_buffer'[i]
              /\ display.autorender =>
                     \A i \in UserArea : display'.buffer[i] = buffer[i]
       /\ (RedrawNotifies /\ is_scheduled) =>
              \A t \in Robots : rpc[t] = "waiting" => rpc'[t] = "woken"
       /\ wpc \in {"locked", "composited", "presenting"} =>
              /\ ~has_scheduled_frame
              /\ ~has_scheduled_frame']_vars

\* a redraw that was not scheduled has passed its notification while a render
\* request waited from before it began, and the request still waits; an earlier
\* scheduled redraw has put the header on the screen
C21_Witness ==
    /\ wpc = "presenting"
    /\ ~is_scheduled
    /\ rpc[MainRobot] = "waiting"
    /\ ack[MainRobot].redraw
    /\ ~ack[MainRobot].notified
    /\ screen[0] = HEADER_COLOR

\* C22 (vsync pacing): an acknowledging render request does not return in the
\* step of the call; when it returns, a scheduled redraw that took the
\* compositor lock after the request began to wait has sent its notification;
\* the renders returned so far never outnumber the scheduled frames whose
\* notification found a render waiting, so k renders in a row need k distinct
\* scheduled frames; and a render request of either kind leaves
\* has_scheduled_frame as it was.
C22_VsyncPacing ==
    [][/\ (Calls("vexDisplayRender") /\ sim_app /\ ack'[MainRobot].waits) =>
              rpc'[MainRobot] = "waiting"
       /\ Returns(MainRobot) =>
              /\ ack[MainRobot].notified
              /\ pace.returns < pace.frames
       /\ pace'.returns <= pace'.frames
       /\ Calls("vexDisplayRender") => UNCHANGED has_scheduled_frame]_vars

\* the third acknowledging render in a row has returned, each one on a
\* scheduled frame of its own
C22_Witness ==
    /\ last_op = "render_return"
    /\ nops = MaxCalls
    /\ pace.returns = MaxCalls
    /\ pace.frames = MaxCalls

\* C23 (double buffering holds back unrendered drawing): while autorender is
\* false, no step but an explicit render request changes the user-drawable
\* area of the visible buffer, whatever ticks and redraws run and whatever is
\* drawn on the Canvas; while autorender is true, the composite pass of a
\* scheduled redraw makes the masked area equal to the user Canvas.
C23_DoubleBuffering ==
    [][/\ (~display.autorender /\ ~Calls("vexDisplayRender")) =>
              \A i \in UserArea : display'.buffer[i] = display.buffer[i]
       /\ (RedrawComposites /\ is_scheduled /\ display.autorender) =>
              \A i \in MaskedArea : display'.buffer[i] = buffer[i]]_vars

\* autorender is off, a pixel was written after the explicit render, and a
\* scheduled redraw has notified: the visible buffer and the framebuffer do
\* not have the pixel
C23_Witness ==
    /\ ~display.autorender
    /\ last_op = "vexDisplayPixelSet"
    /\ wpc = "presenting"
    /\ is_scheduled
    /\ buffer[1 * WIDTH + 1] = DEFAULT_FG_COLOR
    /\ display.buffer[1 * WIDTH + 1] = DEFAULT_BG_COLOR
    /\ framebuffer[1 * WIDTH + 1] = DEFAULT_BG_COLOR

----------------------------------------------------------------------------
(* Claims about the two locks *)

\* the lock a thread of the robot program needs next, and whether it holds one
RobotNeeds(t) ==
    CASE rpc[t] = "draw_lock" -> "CANVAS"
      [] rpc[t] = "render_lock_first" -> render_lock_order[1]
      [] rpc[t] = "render_lock_second" -> render_lock_order[2]
      [] rpc[t] \in {"disable_lock", "woken"} -> "DISPLAY"
      [] OTHER -> "none"

RobotHolds(t, lock) ==
    \/ rpc[t] = "render_held"
    \/ rpc[t] = "render_lock_second" /\ lock = render_lock_order[1]
    \/ rpc[t] = "draw_held" /\ lock = "CANVAS"
    \/ rpc[t] = "disable_held" /\ lock = "DISPLAY"

\* the same for the windowing thread
WindowNeeds ==
    CASE wpc = "redraw_lock" -> "DISPLAY"
      [] wpc = "canvas_lock" -> "CANVAS"
      [] OTHER -> "none"

WindowHolds(lock) ==
    \/ wpc = "canvas_held"
    \/ wpc \in {"canvas_lock", "locked", "composited"} /\ lock = "DISPLAY"

LockNames == {"DISPLAY", "CANVAS"}

RobotBlocked(t) == RobotNeeds(t) # "none" /\ ~LockFree(RobotNeeds(t))
WindowBlocked == WindowNeeds # "none" /\ ~LockFree(WindowNeeds)

\* some thread is blocked on a lock and every thread that holds a lock is
\* itself blocked on one
LockDeadlock ==
    /\ WindowBlocked \/ \E t \in DOMAIN rpc : RobotBlocked(t)
    /\ (\E lock \in LockNames : WindowHolds(lock)) => WindowBlocked
    /\ \A t \in DOMAIN rpc :
           (\E lock \in LockNames : RobotHolds(t, lock)) => RobotBlocked(t)

\* C24 (deadlock freedom of the two locks): each lock is held by one thread at
\* most; no thread that needs DISPLAY holds CANVAS (DISPLAY is taken first by
\* redraw and by render requests alike); a drawing call holds CANVAS only; a
\* thread waiting on FRAME_NOTIFY holds no lock; and no interleaving of drawing
\* calls, render requests of either kind and redraws reaches a state in which
\* the threads block one another on the locks.
C24_DeadlockFreedom ==
    /\ \A lock \in LockNames :
           Cardinality({t \in DOMAIN rpc : RobotHolds(t, lock)})
               + (IF WindowHolds(lock) THEN 1 ELSE 0)
           = IF LockFree(lock) THEN 0 ELSE 1
    /\ ~(WindowNeeds = "DISPLAY" /\ WindowHolds("CANVAS"))
    /\ \A t \in DOMAIN rpc :
           /\ ~(RobotNeeds(t) = "DISPLAY" /\ RobotHolds(t, "CANVAS"))
           /\ rpc[t] = "draw_held" => ~RobotHolds(t, "DISPLAY")
           /\ rpc[t] = "waiting" => \A lock \in LockNames : ~RobotHolds(t, lock)
    /\ ~LockDeadlock

\* the redraw of a scheduled frame holds DISPLAY and is blocked on CANVAS, which
\* a drawing call holds, while a render request of the other thread is blocked
\* on DISPLAY
C24_Witness ==
    /\ wpc = "canvas_lock"
    /\ WindowBlocked
    /\ rpc[MainRobot] = "draw_held"
    /\ rpc[SecondRobot] = "render_lock_first"
    /\ RobotBlocked(SecondRobot)

\* C25 (broadcast wake-up): the notification of a scheduled redraw wakes every
\* thread that waits in an acknowledging render request at that time; a woken
\* thread does not wait again for a later frame, and every woken thread
\* returns.
C25_BroadcastWakeUp ==
    /\ [][/\ (RedrawNotifies /\ is_scheduled) =>
                 \A t \in DOMAIN rpc : rpc[t] = "waiting" => rpc'[t] = "woken"
          /\ \A t \in DOMAIN rpc :
                 rpc[t] = "woken" => rpc'[t] \in {"woken", "idle"}]_vars
    /\ \A t \in RobotThreads : (rpc[t] = "woken") ~> (rpc[t] = "idle")

\* one scheduled redraw has woken the two threads that were waiting
C25_Witness ==
    /\ wpc = "presenting"
    /\ is_scheduled
    /\ \A t \in RobotThreads :
           rpc[t] = "woken" /\ ack[t].waits /\ ack[t].notified

====
